---- MODULE Spec2Model ----
(***************************************************************************)
(* Model of the trim orchestrator of trim-convert (src/app.py):            *)
(* process_video_trim, its filesystem and the external trimming script.    *)
(*                                                                         *)
(* Times are fixed-point numbers counted in ticks of 1/10000 second, so    *)
(* that the one-decimal and three-decimal float formats of the code are    *)
(* real roundings.  Paths are records [dir, stem, ext]; a directory is a   *)
(* pair <<kind, number>>, and the directories made by tempfile.mkdtemp are *)
(* <<"tmp", n>> with n fresh.                                              *)
(***************************************************************************)
EXTENDS Integers, Sequences, FiniteSets, TLC

\* ------------------------------------------------------------------ bounds
\* number of calls of process_video_trim in one behaviour
MaxRequests == 2

\* number of pieces a locator string is put together from
MaxLocatorPieces == 3

\* ------------------------------------------------------------ value spaces
TicksPerSecond == 10 * 1000

\* Python's None in a path slot, and the empty string as a path
None == [dir |-> <<"none", 0>>, stem |-> "", ext |-> ""]
EmptyPath == [dir |-> <<"", 0>>, stem |-> "", ext |-> ""]

clipA == [dir |-> <<"user", 1>>, stem |-> "clip", ext |-> "mov"]
clipB == [dir |-> <<"user", 2>>, stem |-> "clip", ext |-> "mp4"]
SrcPaths == {clipA, clipB}

\* values the caller can pass as video_file
VideoArgs == {None, EmptyPath} \cup SrcPaths

\* values the caller can pass as start_time / end_time
NoneTime == [tag |-> "None", v |-> 0]
BadStr == [tag |-> "str", v |-> 0]
NaN == [tag |-> "nan", v |-> 0]
Inf == [tag |-> "inf", v |-> 0]
Num(t) == [tag |-> "num", v |-> t]

StartArgs == {NoneTime, BadStr, NaN, Num(0 - 50000), Num(0), Num(15000), Num(1000000)}
EndArgs == {NoneTime, BadStr, Inf, Num(0), Num(15000), Num(1000000)}

Stdouts == {"", "trimmed ok"}
Stderrs == {"", "ffmpeg: error"}
ReturnCodes == {0, 1, 127}

\* ------------------------------------------------------------ pure helpers
\* bool(video_file): None and "" are falsy
Truthy(p) == p # None /\ p # EmptyPath

\* float(x): the parsed value, or a raised ValueError/TypeError
PyFloat(x) ==
    IF x.tag \in {"num", "nan", "inf"}
    THEN [raised |-> FALSE, val |-> x]
    ELSE [raised |-> TRUE, val |-> x]

\* a >= b on floats: every comparison with nan is false
FloatGE(a, b) ==
    IF a.tag = "nan" \/ b.tag = "nan" THEN FALSE
    ELSE IF a.tag = "inf" THEN TRUE
    ELSE IF b.tag = "inf" THEN FALSE
    ELSE a.v >= b.v

\* a > b on floats
FloatGT(a, b) == FloatGE(a, b) /\ a # b

\* the rejection with > written for >=: an empty range goes through
StartAfterEnd(s, e) == FloatGT(s, e)

\* start_seconds >= end_seconds, the time-range rejection
StartNotBeforeEnd(s, e) == FloatGE(s, e)

\* nearest multiple of q ticks, counted in units of q
RoundTo(t, q) == (2 * t + q) \div (2 * q)

\* f"{x:.1f}": the value in tenths of a second
Fmt1(x) == RoundTo(x.v, TicksPerSecond \div 10)

\* seconds_to_time: the fields of HH:MM:SS.mmm, or a raised ValueError
\* (int() of the nan that inf // 3600 and nan // 3600 give)
seconds_to_time(x) ==
    IF x.tag # "num"
    THEN [raised |-> TRUE, hours |-> 0, minutes |-> 0, millis |-> 0]
    ELSE [raised |-> FALSE,
          hours |-> x.v \div (3600 * TicksPerSecond),
          minutes |-> (x.v % (3600 * TicksPerSecond)) \div (60 * TicksPerSecond),
          millis |-> RoundTo(x.v % (60 * TicksPerSecond), TicksPerSecond \div 1000)]

NoTimeStr == [raised |-> TRUE, hours |-> 0, minutes |-> 0, millis |-> 0]

\* ----------------------------------------------------- number formatting
\* str(n) for a digit
Digit(n) == SubSeq("0123456789", n + 1, n + 1)

\* the decimal digits of n >= 0
RECURSIVE Dec(_)
Dec(n) == IF n < 10 THEN Digit(n) ELSE Dec(n \div 10) \o Digit(n % 10)

\* f"{n}"
IntStr(n) == IF n < 0 THEN "-" \o Dec(0 - n) ELSE Dec(n)

\* zeros in front of a string up to the width w
RECURSIVE ZeroFill(_, _)
ZeroFill(str, w) == IF Len(str) >= w THEN str ELSE ZeroFill("0" \o str, w)

\* f"{n:02d}": zero-padded to two characters, the sign counted in the width
Pad2(n) == IF n < 0 THEN "-" \o ZeroFill(Dec(0 - n), 1) ELSE ZeroFill(Dec(n), 2)

\* f"{secs:06.3f}" for secs >= 0 given in rounded milliseconds
SecondsField(millis) ==
    ZeroFill(Dec(millis \div 1000), 2) \o "." \o ZeroFill(Dec(millis % 1000), 3)

\* the string seconds_to_time returns: f"{hours:02d}:{minutes:02d}:{secs:06.3f}"
TimeString(t) ==
    Pad2(t.hours) \o ":" \o Pad2(t.minutes) \o ":" \o SecondsField(t.millis)

\* format_time with the seconds rounded to the nearest whole second
format_time_Rounded(x) ==
    IF x = [tag |-> "None", v |-> 0] THEN [raised |-> FALSE, str |-> "0:00"]
    ELSE IF x.tag # "num" THEN [raised |-> TRUE, str |-> ""]
    ELSE [raised |-> FALSE,
          str |-> IntStr(x.v \div (60 * TicksPerSecond)) \o ":"
                  \o Pad2(RoundTo(x.v % (60 * TicksPerSecond), TicksPerSecond))]

\* format_time (app.py 281-287): "0:00" for None, else
\* f"{int(seconds // 60)}:{int(seconds % 60):02d}"; int() raises on nan
format_time(x) ==
    IF x = [tag |-> "None", v |-> 0] THEN [raised |-> FALSE, str |-> "0:00"]
    ELSE IF x.tag # "num" THEN [raised |-> TRUE, str |-> ""]
    ELSE [raised |-> FALSE,
          str |-> IntStr(x.v \div (60 * TicksPerSecond)) \o ":"
                  \o Pad2((x.v % (60 * TicksPerSecond)) \div TicksPerSecond)]

\* script_path = "./trim-convert.sh"
script_path == [dir |-> <<"cwd", 0>>, stem |-> "trim-convert", ext |-> "sh"]

\* tempfile.mkdtemp(): a directory that did not exist before
mkdtemp(dirs) == <<"tmp", Cardinality(dirs) + 1>>

\* output_prefix = os.path.join(temp_dir, f"{base_name}_trimmed"), with
\* base_name = Path(video_file).stem
output_prefix(d, v) == [dir |-> d, stem |-> v.stem \o "_trimmed"]

\* f"{prefix}.{extension}"
WithExt(prefix, extension) ==
    [dir |-> prefix.dir, stem |-> prefix.stem, ext |-> extension]

output_video(prefix) == WithExt(prefix, "mp4")
output_audio(prefix) == WithExt(prefix, "aac")

NoPrefix == [dir |-> <<"none", 0>>, stem |-> ""]

\* --------------------------------------------------- locator resolution
\* the characters of [a-zA-Z0-9-_]
IdAlphabet == "abcdefghijklmnopqrstuvwxyzABCDEFGHIJKLMNOPQRSTUVWXYZ0123456789-_"
IdChars == {SubSeq(IdAlphabet, i, i) : i \in 1..Len(IdAlphabet)}
IsIdChar(c) == c \in IdChars

\* Optional[str]: None, or the identifier
NoId == [found |-> FALSE, id |-> ""]
FoundId(str) == [found |-> TRUE, id |-> str]

\* the literal lit stands in str at position i
LiteralAt(str, i, lit) ==
    /\ i + Len(lit) - 1 <= Len(str)
    /\ SubSeq(str, i, i + Len(lit) - 1) = lit

\* the end of the longest run of identifier characters that starts at j
RECURSIVE IdRunEnd(_, _)
IdRunEnd(str, j) ==
    IF j <= Len(str) /\ IsIdChar(SubSeq(str, j, j)) THEN IdRunEnd(str, j + 1) ELSE j - 1

\* re.search(lit + "([a-zA-Z0-9-_]+)", str): the leftmost place where the
\* literal is followed by an identifier character, and the greedy group
ReSearch(lit, str) ==
    LET at == {i \in 1..Len(str) :
                 /\ LiteralAt(str, i, lit)
                 /\ i + Len(lit) <= Len(str)
                 /\ IsIdChar(SubSeq(str, i + Len(lit), i + Len(lit)))}
    IN IF at = {} THEN NoId
       ELSE LET i == CHOOSE k \in at : \A m \in at : k <= m
                j == i + Len(lit)
            IN FoundId(SubSeq(str, j, IdRunEnd(str, j)))

\* for pattern in patterns: the group of the first pattern that matches
RECURSIVE FirstPattern(_, _)
FirstPattern(patterns, str) ==
    IF patterns = <<>> THEN NoId
    ELSE IF ReSearch(Head(patterns), str).found THEN ReSearch(Head(patterns), str)
    ELSE FirstPattern(Tail(patterns), str)

\* str.strip(), for the blank as the whitespace character
RECURSIVE Strip(_)
Strip(str) ==
    IF Len(str) = 0 THEN str
    ELSE IF SubSeq(str, 1, 1) = " " THEN Strip(SubSeq(str, 2, Len(str)))
    ELSE IF SubSeq(str, Len(str), Len(str)) = " " THEN Strip(SubSeq(str, 1, Len(str) - 1))
    ELSE str

\* re.match(r'^[a-zA-Z0-9-_]+$', str)
IsBareId(str) ==
    /\ Len(str) >= 1
    /\ \A i \in 1..Len(str) : IsIdChar(SubSeq(str, i, i))

\* drive_link_patterns (app.py 80-84), the literal part of each
drive_link_patterns ==
    <<"https://drive.google.com/file/d/",
      "https://drive.google.com/open?id=",
      "https://docs.google.com/file/d/">>

\* patterns (native_drive_picker.py 158-163), the literal part of each
picker_patterns == <<"/file/d/", "/folders/", "id=", "/open?id=">>

\* the bare-identifier rule that forgets to strip what it returns
BareId_Unstripped(str) ==
    IF IsBareId(Strip(str)) THEN FoundId(str) ELSE NoId

\* if re.match(r'^[a-zA-Z0-9-_]+$', s.strip()): return s.strip()
BareId(str) ==
    IF IsBareId(Strip(str)) THEN FoundId(Strip(str)) ELSE NoId

\* extract_drive_file_id (app.py 75-95)
extract_drive_file_id(input_str) ==
    IF FirstPattern(drive_link_patterns, input_str).found
    THEN FirstPattern(drive_link_patterns, input_str)
    ELSE BareId(input_str)

\* GoogleDrivePickerManager.extract_file_id_from_url
\* (native_drive_picker.py 150-174)
extract_file_id_from_url(drive_url) ==
    IF drive_url = "" THEN NoId
    ELSE IF FirstPattern(picker_patterns, drive_url).found
    THEN FirstPattern(picker_patterns, drive_url)
    ELSE BareId(drive_url)

\* ------------------------------------------------------------ media probe
\* What running ffprobe on a file can come to: it cannot be started, it
\* exits nonzero, or it exits 0 and prints JSON with format.duration, JSON
\* without the field, a duration that is no number, or no JSON at all.
ProbeRun(st, rc, kind, d) ==
    [started |-> st, returncode |-> rc, stdout |-> kind, duration |-> d]

ProbeOutcomes ==
    {ProbeRun(FALSE, 0, "", 0), ProbeRun(TRUE, 1, "", 0)} \cup
    {ProbeRun(TRUE, 0, k, 0) : k \in {"not json", "no format.duration", "duration N/A"}} \cup
    {ProbeRun(TRUE, 0, "json", d) : d \in {0, 125000, 1000000}}

\* the probes that measure nothing
Unmeasured == {o \in ProbeOutcomes : ~o.started \/ o.returncode # 0 \/ o.stdout # "json"}

\* no except clause around the probe: the exception leaves the function
ProbeException_Propagates == [raised |-> TRUE, val |-> Num(0)]

\* except Exception: return 0 (app.py 277-279)
ProbeException == [raised |-> FALSE, val |-> Num(0)]

\* get_video_duration (app.py 254-279)
get_video_duration(v, o) ==
    IF ~Truthy(v) THEN [raised |-> FALSE, val |-> Num(0)]
    ELSE IF ~o.started THEN ProbeException
    ELSE IF o.returncode = 0
    THEN IF o.stdout = "json"
         THEN [raised |-> FALSE, val |-> Num(o.duration)]
         ELSE ProbeException
    ELSE [raised |-> FALSE, val |-> Num(0)]

\* the range get_video_info falls back to, in seconds
DefaultDuration == 100

\* get_video_info that takes a zero duration for a failed load
get_video_info_ZeroIsError(v, o) ==
    IF ~Truthy(v) \/ get_video_duration(v, o).val.v <= 0
    THEN [info |-> "No video uploaded", duration |-> Num(0),
          start |-> Num(0), end |-> Num(0)]
    ELSE [info |-> "Video loaded! Duration",
          duration |-> get_video_duration(v, o).val,
          start |-> Num(0), end |-> get_video_duration(v, o).val]

\* get_video_info (app.py 289-306): info, duration, start, end
get_video_info(v, o) ==
    IF ~Truthy(v)
    THEN [info |-> "No video uploaded", duration |-> Num(0),
          start |-> Num(0), end |-> Num(0)]
    ELSE IF get_video_duration(v, o).val.v > 0
    THEN [info |-> "Video loaded! Duration",
          duration |-> get_video_duration(v, o).val,
          start |-> Num(0), end |-> get_video_duration(v, o).val]
    ELSE [info |-> "Video loaded! (Could not determine duration)",
          duration |-> Num(DefaultDuration * TicksPerSecond),
          start |-> Num(0), end |-> Num(DefaultDuration * TicksPerSecond)]

\* What a load handler returns to the interface: the player, the two status
\* texts, the maximum of the sliders, the values of the start and the end
\* slider, and the two time displays.
Outputs(player, status, info, max, start, end, sd, ed) ==
    [player |-> player, status |-> status, info |-> info, max |-> max,
     start |-> start, end |-> end, start_display |-> sd, end_display |-> ed]

NoOutputs == Outputs(None, "", "", NoneTime, NoneTime, NoneTime, "", "")

\* the end slider left at 0
LoadedOutputs_EndAtStart(v, status, o) ==
    Outputs(v, status, get_video_info(v, o).info,
            get_video_info(v, o).duration, Num(0), Num(0),
            "0:00", format_time(get_video_info(v, o).duration).str)

\* the tuple both handlers return once they have a file (app.py 975-985,
\* 994-1004)
LoadedOutputs(v, status, o) ==
    Outputs(v, status, get_video_info(v, o).info,
            get_video_info(v, o).duration, Num(0), get_video_info(v, o).duration,
            "0:00", format_time(get_video_info(v, o).duration).str)

\* load_local_video (app.py 970-985)
load_local_video(v, o) ==
    IF ~Truthy(v)
    THEN Outputs(None, "Please select a video file", "No video loaded",
                 NoneTime, NoneTime, NoneTime, "", "")
    ELSE LoadedOutputs(v, "Local file", o)

\* ------------------------------------------------------------------ fetch
\* A relative path typed into the path box, as os.path.exists sees it.
LocalPath(str) == [dir |-> <<"cwd", 0>>, stem |-> str, ext |-> ""]

\* The files of the remote storage: two files of one name under two IDs.
RemoteIds == {"fileA", "fileB"}
RemoteName(id) == [stem |-> "video", ext |-> "mp4"]

\* os.path.join(directory, filename)
JoinName(d, name) == [dir |-> d, stem |-> name.stem, ext |-> name.ext]

\* tempfile.gettempdir(): the one temporary directory of the system, the
\* parent of every directory mkdtemp makes
gettempdir == <<"tmp", 0>>

\* what a fetch returns: a local path or None, and a status message
Ret(p, m) == [raised |-> FALSE, path |-> p, msg |-> m]
NoRet == Ret(None, "")

\* download_from_drive handing back the file it had begun
OnDownloadError_KeepsFile(temp_file) == temp_file

\* except Exception: return None (app.py 116-118)
OnDownloadError(temp_file) == None

\* app.py 140-145: what load_video_from_path_or_drive makes of the
\* result of download_from_drive
FetchReturn(temp_file) ==
    IF temp_file # None
    THEN Ret(temp_file, "Downloaded from Drive")
    ELSE Ret(None, "Failed to download from Drive")

\* except Exception (app.py 147-149)
OnDriveError == Ret(None, "Drive error")

\* except Exception (native_drive_picker.py 222-224)
OnPickerError == Ret(None, "Download failed")

\* load_remote_video after load_video_from_path_or_drive returned
\* (app.py 992-1006)
RemoteOutputs(ret, o) ==
    IF Truthy(ret.path)
    THEN LoadedOutputs(ret.path, ret.msg, o)
    ELSE Outputs(None, ret.msg, "Failed to load video",
                 NoneTime, NoneTime, NoneTime, "", "")

\* ---------------------------------------------------------------- messages
\* A message is the kind of its text and the values the text carries; a
\* value the text does not contain is the empty set.
Msg(k) == [kind |-> k, path |-> {}, code |-> {}, out |-> {}, err |-> {},
           from |-> {}, to |-> {}, exc |-> {}]

MsgProvideInputs == Msg("Please provide video file and both start/end times")
\* the time-range rejection worded like the missing-input rejection
MsgStartNotLess_Generic == MsgProvideInputs

MsgStartNotLess == Msg("Start time must be less than end time")
MsgInputNotFound(p) == [Msg("Input video file not found") EXCEPT !.path = {p}]
MsgScriptNotFound(p) == [Msg("trim-convert.sh script not found at") EXCEPT !.path = {p}]
MsgSuccess(s, e) ==
    [Msg("Successfully trimmed video") EXCEPT !.from = {Fmt1(s)}, !.to = {Fmt1(e)}]
\* the missing-outputs text without the captured stderr
MsgOutputsNotCreated_NoStderr(r) ==
    [Msg("Output files not created") EXCEPT !.out = {r.stdout}]

MsgOutputsNotCreated(r) ==
    [Msg("Output files not created") EXCEPT !.out = {r.stdout}, !.err = {r.stderr}]
\* the failed-script text without the captured stderr
MsgScriptFailed_NoStderr(r) ==
    [Msg("trim-convert.sh failed with return code") EXCEPT
        !.code = {r.returncode}, !.out = {r.stdout}]

MsgScriptFailed(r) ==
    [Msg("trim-convert.sh failed with return code") EXCEPT
        !.code = {r.returncode}, !.out = {r.stdout}, !.err = {r.stderr}]
MsgUnexpected(e) == [Msg("Unexpected error") EXCEPT !.exc = {e}]

Failure(m) == <<None, None, None, m>>
NoResult == Failure(Msg(""))

\* How a step of the function ends: it goes on to the next phase, it returns
\* a result, or (never, in this code) an exception leaves the function.
GoOn(phase) == [pc |-> phase, result |-> NoResult]
Return(r) == [pc |-> "Done", result |-> r]

\* no except clause: the exception leaves the function
OnException_Propagates(e) == [pc |-> "Raised", result |-> NoResult]

\* except Exception as e: return None, None, None, f"Unexpected error: {e}"
OnException(e) == Return(Failure(MsgUnexpected(e)))

\* ------------------------------------------------------------------- state
VARIABLES
    pc,             \* position of the call in process_video_trim
    reqId,          \* number of calls made so far
    video_file, start_time, end_time,   \* the arguments of the call
    start_seconds, end_seconds,         \* the parsed times
    temp_dir,       \* the workspace of the call
    cmd,            \* the argument list given to subprocess.run
    proc,           \* the CompletedProcess: returncode, stdout, stderr
    result,         \* the returned 4-tuple
    fs,             \* the files that exist on disk
    tmpdirs,        \* the directories tempfile.mkdtemp has made
    invocations,    \* subprocesses started by this call
    workspaces,     \* workspaces made by this call
    fs0, tmpdirs0   \* fs and tmpdirs as they were when the call was made

\* the formatters, called on their own
VARIABLES
    fmt_fn,         \* the formatter that was called, "none" before the call
    fmt_in,         \* its argument
    fmt_out         \* the string it returned

trimVars == <<pc, reqId, video_file, start_time, end_time, start_seconds,
              end_seconds, temp_dir, cmd, proc, result, fs, tmpdirs,
              invocations, workspaces, fs0, tmpdirs0>>

fmtVars == <<fmt_fn, fmt_in, fmt_out>>

\* the locator resolvers, called on their own
VARIABLES
    loc_fn,         \* the resolver that was called, "none" before the call
    loc_in,         \* its argument
    loc_out         \* what it returned

locVars == <<loc_fn, loc_in, loc_out>>

\* everything process_video_trim does not touch
\* The handlers that probe and fetch, two of them in flight at a time:
\* for each, the function called, its position, its arguments, what it
\* resolved and allocated, the remote calls it made, and what it returned.
VARIABLES ops

loadVars == <<ops>>

\* One upload: the function called, its position, its arguments, the folder
\* ID it resolved, the parents it sent, the remote files it created in the
\* order of their creation, and the message it returned.
VARIABLES up

upVars == <<up>>

\* trim_drive_video around process_video_trim: its position, its output
\* folder and what it returned; and the folders that exist on disk.
VARIABLES drv, dirs

driveVars == <<drv, dirs>>

sideVars == <<fmtVars, locVars, loadVars, upVars, driveVars>>

vars == <<trimVars, sideVars>>

NoDir == <<"none", 0>>
NoCmd == [start |-> NoTimeStr, end |-> NoTimeStr, prefix |-> NoPrefix, input |-> None]
NoProc == [returncode |-> 0, stdout |-> "", stderr |-> ""]

\* os.path.exists
Exists(p) == p \in fs

\* the remote branch taken first for an input that has the shape of an ID
LocalFirst_UnlessId(input_path) ==
    Exists(LocalPath(input_path)) /\ ~extract_drive_file_id(input_path).found

\* if os.path.exists(input_path) (app.py 126), before anything remote
LocalFirst(input_path) == Exists(LocalPath(input_path))

Operations == {"op1", "op2"}

NoProbe == ProbeRun(FALSE, 0, "not run", 0)
NoCalls == [extract |-> 0, auth |-> 0, meta |-> 0, media |-> 0, chunks |-> 0]

NoOp ==
    [fn |-> "none", pc |-> "idle", input |-> "", video |-> None,
     file_id |-> NoId, temp_dir |-> NoDir, local |-> None,
     calls |-> NoCalls, failed |-> "", completed |-> FALSE,
     ret |-> NoRet, probe |-> NoProbe,
     duration |-> [raised |-> FALSE, val |-> NoneTime],
     out |-> NoOutputs]

LoadIdle == ops = [i \in Operations |-> NoOp]

\* a text argument that can be None
NoneStr == [tag |-> "None", s |-> ""]
Str(str) == [tag |-> "str", s |-> str]

\* Python's truth value of it
Given(a) == a.tag = "str" /\ a.s # ""

NoUp ==
    [fn |-> "none", pc |-> "idle", video |-> None, audio |-> None,
     dest |-> NoneStr, folder_id |-> "", parents |-> {}, attempts |-> 0,
     created |-> <<>>, failed |-> "", ok |-> FALSE, ret |-> ""]

UpIdle == up = NoUp

NoDrv ==
    [pc |-> "idle", req |-> 0, output_path |-> NoDir, dirs0 |-> {},
     moved |-> {}, result |-> NoResult]

DriveIdle == drv = NoDrv /\ dirs = {}

\* no formatter call under way
FmtIdle == fmt_fn = "none" /\ fmt_in = NoneTime /\ fmt_out = ""

\* no resolver call under way
LocIdle == loc_fn = "none" /\ loc_in = "" /\ loc_out = NoId

Init ==
    /\ FmtIdle
    /\ LocIdle
    /\ LoadIdle
    /\ UpIdle
    /\ DriveIdle
    /\ pc = "idle"
    /\ reqId = 0
    /\ video_file = None
    /\ start_time = NoneTime
    /\ end_time = NoneTime
    /\ start_seconds = NoneTime
    /\ end_seconds = NoneTime
    /\ temp_dir = NoDir
    /\ cmd = NoCmd
    /\ proc = NoProc
    /\ result = NoResult
    /\ fs \in SUBSET (SrcPaths \cup {script_path})
    /\ tmpdirs = {}
    /\ invocations = 0
    /\ workspaces = 0
    /\ fs0 = fs
    /\ tmpdirs0 = {}

\* The caller (the trim button, or any other caller) calls
\* process_video_trim(video_file, start_time, end_time).
Call ==
    /\ UNCHANGED sideVars
    /\ pc \in {"idle", "Done"}
    /\ reqId < MaxRequests
    /\ \E v \in VideoArgs, s \in StartArgs, e \in EndArgs :
          /\ video_file' = v
          /\ start_time' = s
          /\ end_time' = e
    /\ reqId' = reqId + 1
    /\ pc' = "Validating"
    /\ start_seconds' = NoneTime
    /\ end_seconds' = NoneTime
    /\ temp_dir' = NoDir
    /\ cmd' = NoCmd
    /\ proc' = NoProc
    /\ result' = NoResult
    /\ invocations' = 0
    /\ workspaces' = 0
    /\ fs0' = fs
    /\ tmpdirs0' = tmpdirs
    /\ UNCHANGED <<fs, tmpdirs>>

\* the checks without the os.path.exists test of the source
ValidateOutcome_NoExistsCheck(v, s, e) ==
    IF ~Truthy(v) \/ s = NoneTime \/ e = NoneTime
    THEN Return(Failure(MsgProvideInputs))
    ELSE IF PyFloat(s).raised \/ PyFloat(e).raised
    THEN OnException("ValueError")
    ELSE IF StartNotBeforeEnd(PyFloat(s).val, PyFloat(e).val)
    THEN Return(Failure(MsgStartNotLess))
    ELSE GoOn("Preparing")

\* Lines 157-176: the checks made before anything is created.
ValidateOutcome(v, s, e) ==
    IF ~Truthy(v) \/ s = NoneTime \/ e = NoneTime
    THEN Return(Failure(MsgProvideInputs))
    ELSE IF PyFloat(s).raised \/ PyFloat(e).raised
    THEN OnException("ValueError")
    ELSE IF StartNotBeforeEnd(PyFloat(s).val, PyFloat(e).val)
    THEN Return(Failure(MsgStartNotLess))
    ELSE IF ~Exists(v)
    THEN Return(Failure(MsgInputNotFound(v)))
    ELSE GoOn("Preparing")

Validate ==
    /\ UNCHANGED sideVars
    /\ pc = "Validating"
    /\ LET o == ValidateOutcome(video_file, start_time, end_time) IN
          /\ pc' = o.pc
          /\ result' = o.result
          /\ start_seconds' = IF o.pc = "Preparing" THEN PyFloat(start_time).val ELSE start_seconds
          /\ end_seconds' = IF o.pc = "Preparing" THEN PyFloat(end_time).val ELSE end_seconds
    /\ UNCHANGED <<reqId, video_file, start_time, end_time, temp_dir, cmd, proc,
                   fs, tmpdirs, invocations, workspaces, fs0, tmpdirs0>>

\* the script is taken to be there
ScriptCheckOutcome_Skipped == GoOn("Invoking")

\* Lines 192-197: the script must be at script_path.
ScriptCheckOutcome ==
    IF ~Exists(script_path)
    THEN Return(Failure(MsgScriptNotFound(script_path)))
    ELSE GoOn("Invoking")

\* Lines 178-197: make the workspace (mkdtemp can raise OSError), derive the
\* output names, check the script.
Prepare ==
    /\ UNCHANGED sideVars
    /\ pc = "Preparing"
    /\ \E made \in BOOLEAN :
          IF made
          THEN /\ temp_dir' = mkdtemp(tmpdirs)
               /\ tmpdirs' = tmpdirs \cup {mkdtemp(tmpdirs)}
               /\ workspaces' = workspaces + 1
               /\ pc' = ScriptCheckOutcome.pc
               /\ result' = ScriptCheckOutcome.result
          ELSE /\ pc' = OnException("OSError").pc
               /\ result' = OnException("OSError").result
               /\ UNCHANGED <<temp_dir, tmpdirs, workspaces>>
    /\ UNCHANGED <<reqId, video_file, start_time, end_time, start_seconds,
                   end_seconds, cmd, proc, fs, invocations, fs0, tmpdirs0>>

\* Lines 212-218: the argument list
BuildCmd(s, e, d, v) ==
    [start |-> seconds_to_time(s), end |-> seconds_to_time(e),
     prefix |-> output_prefix(d, v), input |-> v]

\* Lines 199-222: format the times (int() raises on nan and inf), build the
\* command and start it; subprocess.run raises when bash cannot be started.
Invoke ==
    /\ UNCHANGED sideVars
    /\ pc = "Invoking"
    /\ IF seconds_to_time(start_seconds).raised \/ seconds_to_time(end_seconds).raised
       THEN /\ pc' = OnException("ValueError").pc
            /\ result' = OnException("ValueError").result
            /\ UNCHANGED <<cmd, invocations>>
       ELSE \E started \in BOOLEAN :
              IF started
              THEN /\ cmd' = BuildCmd(start_seconds, end_seconds, temp_dir, video_file)
                   /\ invocations' = invocations + 1
                   /\ pc' = "Running"
                   /\ UNCHANGED result
              ELSE /\ pc' = OnException("FileNotFoundError").pc
                   /\ result' = OnException("FileNotFoundError").result
                   /\ UNCHANGED <<cmd, invocations>>
    /\ UNCHANGED <<reqId, video_file, start_time, end_time, start_seconds,
                   end_seconds, temp_dir, proc, fs, tmpdirs, workspaces, fs0, tmpdirs0>>

\* a wait that gives up: subprocess.run with a timeout, which raises
\* TimeoutExpired while the script is still running
ToolExit_TimesOut ==
    /\ UNCHANGED sideVars
    /\ pc = "Running"
    /\ \/ /\ \E rc \in ReturnCodes, out \in Stdouts, err \in Stderrs,
                written \in SUBSET {output_video(cmd.prefix), output_audio(cmd.prefix)} :
                /\ proc' = [returncode |-> rc, stdout |-> out, stderr |-> err]
                /\ fs' = fs \cup written
          /\ pc' = "Verifying"
          /\ UNCHANGED result
       \/ /\ pc' = OnException("TimeoutExpired").pc
          /\ result' = OnException("TimeoutExpired").result
          /\ UNCHANGED <<proc, fs>>
    /\ UNCHANGED <<reqId, video_file, start_time, end_time, start_seconds,
                   end_seconds, temp_dir, cmd, tmpdirs, invocations,
                   workspaces, fs0, tmpdirs0>>

\* The external script runs to its end: it writes any of <prefix>.mp4 and
\* <prefix>.aac, for the prefix it was given, and exits with some code and
\* output.  subprocess.run returns the CompletedProcess.
ToolExit ==
    /\ UNCHANGED sideVars
    /\ pc = "Running"
    /\ \E rc \in ReturnCodes, out \in Stdouts, err \in Stderrs,
          written \in SUBSET {output_video(cmd.prefix), output_audio(cmd.prefix)} :
          /\ proc' = [returncode |-> rc, stdout |-> out, stderr |-> err]
          /\ fs' = fs \cup written
    /\ pc' = "Verifying"
    /\ UNCHANGED <<reqId, video_file, start_time, end_time, start_seconds,
                   end_seconds, temp_dir, cmd, result, tmpdirs, invocations,
                   workspaces, fs0, tmpdirs0>>

\* the verification with "or" written for "and": one file is enough
VerifyOutcome_EitherFile(r, prefix, s, e) ==
    IF r.returncode = 0
    THEN IF Exists(output_video(prefix)) \/ Exists(output_audio(prefix))
         THEN Return(<<output_video(prefix), output_audio(prefix),
                       output_audio(prefix), MsgSuccess(s, e)>>)
         ELSE Return(Failure(MsgOutputsNotCreated(r)))
    ELSE Return(Failure(MsgScriptFailed(r)))

\* the verification that runs the script again after a nonzero exit
VerifyOutcome_Retry(r, prefix, s, e) ==
    IF r.returncode = 0
    THEN IF Exists(output_video(prefix)) /\ Exists(output_audio(prefix))
         THEN Return(<<output_video(prefix), output_audio(prefix),
                       output_audio(prefix), MsgSuccess(s, e)>>)
         ELSE Return(Failure(MsgOutputsNotCreated(r)))
    ELSE GoOn("Invoking")

\* the verification that returns the video alone when the audio is missing
VerifyOutcome_PartialResult(r, prefix, s, e) ==
    IF r.returncode = 0
    THEN IF Exists(output_video(prefix)) /\ Exists(output_audio(prefix))
         THEN Return(<<output_video(prefix), output_audio(prefix),
                       output_audio(prefix), MsgSuccess(s, e)>>)
         ELSE IF Exists(output_video(prefix))
         THEN Return(<<output_video(prefix), None, None, MsgSuccess(s, e)>>)
         ELSE Return(Failure(MsgOutputsNotCreated(r)))
    ELSE Return(Failure(MsgScriptFailed(r)))

\* the verification that trusts the exit code alone
VerifyOutcome_ExitCodeOnly(r, prefix, s, e) ==
    IF r.returncode = 0
    THEN Return(<<output_video(prefix), output_audio(prefix),
                  output_audio(prefix), MsgSuccess(s, e)>>)
    ELSE Return(Failure(MsgScriptFailed(r)))

\* Lines 229-247: the result, from the exit code and the two files.
VerifyOutcome(r, prefix, s, e) ==
    IF r.returncode = 0
    THEN IF Exists(output_video(prefix)) /\ Exists(output_audio(prefix))
         THEN Return(<<output_video(prefix), output_audio(prefix),
                       output_audio(prefix), MsgSuccess(s, e)>>)
         ELSE Return(Failure(MsgOutputsNotCreated(r)))
    ELSE Return(Failure(MsgScriptFailed(r)))

Verify ==
    /\ UNCHANGED sideVars
    /\ pc = "Verifying"
    /\ LET o == VerifyOutcome(proc, output_prefix(temp_dir, video_file),
                              start_seconds, end_seconds) IN
          /\ pc' = o.pc
          /\ result' = o.result
    /\ UNCHANGED <<reqId, video_file, start_time, end_time, start_seconds,
                   end_seconds, temp_dir, cmd, proc, fs, tmpdirs, invocations,
                   workspaces, fs0, tmpdirs0>>

Next == Call \/ Validate \/ Prepare \/ Invoke \/ ToolExit \/ Verify

Spec == Init /\ [][Next]_vars

\* ------------------------------------------------------------------ claims
IsFailure(r) == r[1] = None /\ r[2] = None /\ r[3] = None
IsSuccess(r) == r[1] # None /\ r[2] # None /\ r[3] # None
InCall == pc # "idle"
Parses(x) == x.tag \in {"num", "nan", "inf"}

\* C1: a call with a non-empty source path and numeric start and end with
\* start >= end never leaves validation: no workspace is made, no subprocess
\* is started, and the call returns a failure (three null path slots).
C1_RangeRejectedBeforeAnyEffect ==
    (/\ InCall
     /\ Truthy(video_file)
     /\ Parses(start_time) /\ Parses(end_time)
     /\ FloatGE(start_time, end_time))
    => /\ pc \in {"Validating", "Done"}
       /\ invocations = 0
       /\ workspaces = 0
       /\ tmpdirs = tmpdirs0
       /\ pc = "Done" => IsFailure(result)

\* an existing source with start = end = 1.5 s was rejected
C1_Witness ==
    /\ pc = "Done"
    /\ video_file \in fs
    /\ start_time = Num(15000) /\ end_time = Num(15000)
    /\ result = Failure(MsgStartNotLess)
    /\ tmpdirs = tmpdirs0

\* C2 as stated: a missing source path gives the "input file not found"
\* failure whatever start and end are.
C2_NotFoundWhateverTimes ==
    (pc = "Done" /\ video_file \in SrcPaths /\ video_file \notin fs)
    => /\ IsFailure(result)
       /\ result[4] = MsgInputNotFound(video_file)
       /\ workspaces = 0 /\ invocations = 0

\* C2 as amended: a call whose source path is not on disk never leaves
\* validation (no workspace, no subprocess) and returns a failure; the
\* message is "input file not found" exactly when the path is non-empty and
\* start and end parse as numbers without start >= end, and otherwise it is
\* the message of the check that comes first in the code.
C2_MissingSourceRejected ==
    (InCall /\ video_file \notin fs)
    => /\ pc \in {"Validating", "Done"}
       /\ invocations = 0
       /\ workspaces = 0
       /\ tmpdirs = tmpdirs0
       /\ pc = "Done" =>
            /\ IsFailure(result)
            /\ result[4] =
                 IF ~Truthy(video_file) \/ start_time = NoneTime \/ end_time = NoneTime
                 THEN MsgProvideInputs
                 ELSE IF ~Parses(start_time) \/ ~Parses(end_time)
                 THEN MsgUnexpected("ValueError")
                 ELSE IF FloatGE(start_time, end_time)
                 THEN MsgStartNotLess
                 ELSE MsgInputNotFound(video_file)

\* a missing source with a good time range was reported as not found
C2_Witness ==
    /\ pc = "Done"
    /\ video_file = clipB /\ clipB \notin fs
    /\ start_time = Num(0) /\ end_time = Num(1000000)
    /\ result = Failure(MsgInputNotFound(clipB))
    /\ workspaces = 0

\* C3: when the script has exited with code 0 and the expected video file or
\* the expected audio file is not on disk, the call returns a failure.
C3_FilePresenceAuthoritative ==
    (/\ pc = "Done"
     /\ invocations = 1
     /\ proc.returncode = 0
     /\ \/ WithExt(cmd.prefix, "mp4") \notin fs
        \/ WithExt(cmd.prefix, "aac") \notin fs)
    => IsFailure(result)

\* exit code 0, the video was written, the audio was not: failure
C3_Witness ==
    /\ pc = "Done"
    /\ invocations = 1
    /\ proc.returncode = 0
    /\ WithExt(cmd.prefix, "mp4") \in fs
    /\ WithExt(cmd.prefix, "aac") \notin fs
    /\ IsFailure(result)

\* a < b on floats
FloatLT(a, b) ==
    IF a.tag = "nan" \/ b.tag = "nan" THEN FALSE
    ELSE IF a.tag = "inf" THEN FALSE
    ELSE IF b.tag = "inf" THEN TRUE
    ELSE a.v < b.v

\* the prefix the call is expected to use: the workspace of this call, made
\* by this call, with the source's base name and "_trimmed"
ExpectedPrefix == [dir |-> temp_dir, stem |-> video_file.stem \o "_trimmed"]

\* C4: a finished call has returned a success exactly when the source path
\* is non-empty and exists, start and end parse with start < end, the script
\* exists, the subprocess was run and exited with code 0 and <prefix>.mp4 and
\* <prefix>.aac exist, for the prefix given to the tool (fresh workspace,
\* source base name, "_trimmed"); a success returns <prefix>.mp4,
\* <prefix>.aac and a message with the requested start and end to one
\* decimal place.
C4_SuccessExactlyWhen ==
    pc = "Done" =>
      /\ IsSuccess(result) <=>
            /\ Truthy(video_file) /\ video_file \in fs
            /\ Parses(start_time) /\ Parses(end_time)
            /\ FloatLT(start_time, end_time)
            /\ script_path \in fs
            /\ invocations = 1
            /\ proc.returncode = 0
            /\ cmd.prefix = ExpectedPrefix
            /\ temp_dir \in tmpdirs \ tmpdirs0
            /\ WithExt(cmd.prefix, "mp4") \in fs
            /\ WithExt(cmd.prefix, "aac") \in fs
      /\ IsSuccess(result) =>
            /\ result[1] = WithExt(cmd.prefix, "mp4")
            /\ result[2] = WithExt(cmd.prefix, "aac")
            /\ result[4].kind = "Successfully trimmed video"
            /\ result[4].from = {RoundTo(start_time.v, 1000)}
            /\ result[4].to = {RoundTo(end_time.v, 1000)}
      /\ ~IsSuccess(result) => IsFailure(result)

\* start = 0, end = 100 s on an existing source: success, both files on
\* disk, the message says 0.0s to 100.0s
C4_Witness ==
    /\ pc = "Done"
    /\ start_time = Num(0) /\ end_time = Num(1000000)
    /\ IsSuccess(result)
    /\ result[1] \in fs /\ result[2] \in fs
    /\ result[4].from = {0} /\ result[4].to = {1000}

\* C5: when the script has exited with a nonzero code, the call returns a
\* failure whose message carries that code and the captured stdout and
\* stderr as captured, whether or not the output files exist.
C5_NonzeroExitDiagnostics ==
    (pc = "Done" /\ invocations = 1 /\ proc.returncode # 0)
    => /\ IsFailure(result)
       /\ result[4].kind = "trim-convert.sh failed with return code"
       /\ result[4].code = {proc.returncode}
       /\ result[4].out = {proc.stdout}
       /\ result[4].err = {proc.stderr}

\* exit code 1 with both output files on disk: still the failure, with the
\* code and both streams
C5_Witness ==
    /\ pc = "Done"
    /\ invocations = 1
    /\ proc = [returncode |-> 1, stdout |-> "trimmed ok", stderr |-> "ffmpeg: error"]
    /\ WithExt(cmd.prefix, "mp4") \in fs
    /\ WithExt(cmd.prefix, "aac") \in fs
    /\ IsFailure(result)
    /\ result[4].code = {1}
    /\ result[4].err = {"ffmpeg: error"}

OutputMissing ==
    /\ pc = "Done"
    /\ invocations = 1
    /\ proc.returncode = 0
    /\ \/ WithExt(cmd.prefix, "mp4") \notin fs
       \/ WithExt(cmd.prefix, "aac") \notin fs

\* C6 as stated: exit code 0 with an output file missing gives a failure
\* that carries the exit code and both captured streams.
C6_SamePayloadAsNonzeroExit ==
    OutputMissing
    => /\ IsFailure(result)
       /\ result[4].code = {proc.returncode}
       /\ result[4].out = {proc.stdout}
       /\ result[4].err = {proc.stderr}

\* C6 as amended: exit code 0 with an output file missing gives a failure
\* whose message carries both captured streams and no exit code.
C6_MissingOutputDiagnostics ==
    OutputMissing
    => /\ IsFailure(result)
       /\ result[4].kind = "Output files not created"
       /\ result[4].out = {proc.stdout}
       /\ result[4].err = {proc.stderr}
       /\ result[4].code = {}

\* exit code 0, no output file at all, text on both streams
C6_Witness ==
    /\ OutputMissing
    /\ WithExt(cmd.prefix, "mp4") \notin fs
    /\ WithExt(cmd.prefix, "aac") \notin fs
    /\ proc.stdout = "trimmed ok" /\ proc.stderr = "ffmpeg: error"
    /\ result[4].out = {"trimmed ok"} /\ result[4].err = {"ffmpeg: error"}

\* C7: no exception leaves process_video_trim, whatever the arguments, the
\* filesystem and the tool do, and a finished call has returned four slots
\* (video, audio, audio, message) with a message text.
C7_NothingThrown ==
    /\ pc \in {"idle", "Validating", "Preparing", "Invoking", "Running",
               "Verifying", "Done"}
    /\ pc = "Done" =>
         /\ Len(result) = 4
         /\ result[2] = result[3]
         /\ result[4].kind # ""

\* an exception was raised inside the call (float(), mkdtemp, int() of nan,
\* subprocess.run) and came back as a failure result
C7_Witness ==
    /\ pc = "Done"
    /\ result[4].exc # {}
    /\ IsFailure(result)

\* the phases of a request, in their order
Rank(p) ==
    CASE p = "idle" -> 0
      [] p = "Validating" -> 1
      [] p = "Preparing" -> 2
      [] p \in {"Invoking", "Running"} -> 3
      [] p = "Verifying" -> 4
      [] OTHER -> 5

\* a step of one request: the phase does not go back, it moves to the next
\* phase or jumps to Done with a failure, and nothing changes after Done
PhaseStep ==
    reqId' = reqId =>
      /\ Rank(pc') >= Rank(pc)
      /\ Rank(pc') > Rank(pc) + 1 => (pc' = "Done" /\ IsFailure(result'))
      /\ pc' = "Done" => (IsSuccess(result') \/ IsFailure(result'))
      /\ pc = "Done" => UNCHANGED vars

\* C8: within one request the phases are passed in the order Validating,
\* Preparing, Invoking, Verifying, Done, with jumps only to Done(Failure) and
\* no step back; the tool is started at most once and at most one workspace
\* is made; Done is terminal.
C8_PhaseOrder ==
    /\ [][PhaseStep]_vars
    /\ [](invocations <= 1 /\ workspaces <= 1)
    /\ [](Cardinality(tmpdirs \ tmpdirs0) = workspaces)

\* the second request went through every phase to a success, with one
\* workspace and one invocation
C8_Witness ==
    /\ pc = "Done"
    /\ reqId = 2
    /\ IsSuccess(result)
    /\ invocations = 1
    /\ workspaces = 1

\* C9 as stated: whenever the tool has been started, the parsed times
\* satisfy 0 <= start_seconds < end_seconds.
C9_InvokedTimesInRange ==
    invocations >= 1 =>
      /\ start_seconds.tag = "num" /\ end_seconds.tag = "num"
      /\ 0 <= start_seconds.v
      /\ start_seconds.v < end_seconds.v

CauseEmpty(v) == ~Truthy(v)
CauseMissing(v) == Truthy(v) /\ v \notin fs
CauseTimes(s, e) == ~Parses(s) \/ ~Parses(e)
CauseRange(s, e) == Parses(s) /\ Parses(e) /\ FloatGE(s, e)

Causes(v, s, e) ==
    {c \in {"empty", "missing", "times", "range"} :
        \/ c = "empty" /\ CauseEmpty(v)
        \/ c = "missing" /\ CauseMissing(v)
        \/ c = "times" /\ CauseTimes(s, e)
        \/ c = "range" /\ CauseRange(s, e)}

\* C11 as stated: the messages of the four rejection causes (path empty,
\* path missing on disk, start/end absent or unparseable, start >= end) are
\* pairwise different: a request rejected for one cause alone never gets the
\* message that a request rejected for another cause alone gets.
C11_DistinctReasonPerCause ==
    (pc = "Done" /\ Cardinality(Causes(video_file, start_time, end_time)) = 1)
    => \A v \in VideoArgs, s \in StartArgs, e \in EndArgs :
         (/\ Cardinality(Causes(v, s, e)) = 1
          /\ Causes(v, s, e) # Causes(video_file, start_time, end_time))
         => ValidateOutcome(v, s, e).result[4] # result[4]

\* The checks of the validation in the order of the code; the first one
\* that fails rejects the request.
FirstCheck(v, s, e) ==
    IF ~Truthy(v) \/ s = NoneTime \/ e = NoneTime THEN "absent"
    ELSE IF ~Parses(s) \/ ~Parses(e) THEN "unparseable"
    ELSE IF FloatGE(s, e) THEN "range"
    ELSE IF v \notin fs THEN "missing"
    ELSE "none"

\* C11 as amended: the message tells which of four checks rejected the
\* request: an input absent (empty path, or a None start or end, which share
\* one message), a time that does not parse, start >= end, or the source
\* missing on disk; two requests rejected by different checks never get the
\* same message.
C11_DistinctReasonPerCheck ==
    (pc = "Done" /\ FirstCheck(video_file, start_time, end_time) # "none")
    => \A v \in VideoArgs, s \in StartArgs, e \in EndArgs :
         FirstCheck(v, s, e) \notin {"none", FirstCheck(video_file, start_time, end_time)}
         => ValidateOutcome(v, s, e).result[4] # result[4]

\* a request rejected for start >= end alone, with its own message
C11_Witness ==
    /\ pc = "Done"
    /\ Causes(video_file, start_time, end_time) = {"range"}
    /\ result[4].kind = "Start time must be less than end time"
    /\ ValidateOutcome(None, start_time, end_time).result[4].kind
         = "Please provide video file and both start/end times"

\* ------------------------------------------------- the formatters alone
\* process_video_trim not called: every variable of it as Init leaves it
TrimIdle ==
    /\ pc = "idle"
    /\ reqId = 0
    /\ video_file = None
    /\ start_time = NoneTime
    /\ end_time = NoneTime
    /\ start_seconds = NoneTime
    /\ end_seconds = NoneTime
    /\ temp_dir = NoDir
    /\ cmd = NoCmd
    /\ proc = NoProc
    /\ result = NoResult
    /\ tmpdirs = {}
    /\ invocations = 0
    /\ workspaces = 0
    /\ fs0 = fs
    /\ tmpdirs0 = {}

\* durations to format: minutes, whole seconds and a fraction, in ticks
FormatInputs ==
    {NoneTime, Num(0 - 50000)} \cup
    {Num((m * 60 + sec) * TicksPerSecond + f) :
        m \in {0, 1, 59, 60, 100}, sec \in {0, 9, 10, 59},
        f \in {0, 4, 5000, 9994, 9996}}

InitFormat ==
    /\ fs = {}
    /\ TrimIdle
    /\ LocIdle
    /\ LoadIdle
    /\ UpIdle
    /\ DriveIdle
    /\ fmt_fn = "none"
    /\ fmt_in \in FormatInputs
    /\ fmt_out = ""

\* format_time(seconds), as update_start_display and the load handlers call it
FormatDisplay ==
    /\ fmt_fn = "none"
    /\ ~format_time(fmt_in).raised
    /\ fmt_fn' = "format_time"
    /\ fmt_out' = format_time(fmt_in).str
    /\ UNCHANGED <<trimVars, locVars, loadVars, upVars, driveVars, fmt_in>>

\* seconds_to_time(seconds), as process_video_trim calls it on a parsed float
FormatToolArgument ==
    /\ fmt_fn = "none"
    /\ ~seconds_to_time(fmt_in).raised
    /\ fmt_fn' = "seconds_to_time"
    /\ fmt_out' = TimeString(seconds_to_time(fmt_in))
    /\ UNCHANGED <<trimVars, locVars, loadVars, upVars, driveVars, fmt_in>>

NextFormat == FormatDisplay \/ FormatToolArgument

SpecFormat == InitFormat /\ [][NextFormat]_vars

\* reading a formatted string back
Char(str, i) == SubSeq(str, i, i)
IsDigits(str) ==
    /\ Len(str) >= 1
    /\ \A i \in 1..Len(str) : \E n \in 0..9 : Char(str, i) = Digit(n)
DigitVal(c) == CHOOSE n \in 0..9 : Digit(n) = c
RECURSIVE Val(_)
Val(str) ==
    IF Len(str) = 0 THEN 0
    ELSE 10 * Val(SubSeq(str, 1, Len(str) - 1)) + DigitVal(Char(str, Len(str)))

\* C15: for seconds >= 0 format_time gives minutes, a colon and exactly two
\* seconds digits in 00..59, the minutes not wrapped at 60, and
\* minutes*60 + seconds read back from the string is the whole-second part
\* of the input; None gives "0:00".
C15_DisplayFormat ==
    fmt_fn = "format_time" =>
      IF fmt_in = NoneTime THEN fmt_out = "0:00"
      ELSE fmt_in.v >= 0 =>
        \E c \in 1..Len(fmt_out) :
          LET mm == SubSeq(fmt_out, 1, c - 1)
              ss == SubSeq(fmt_out, c + 1, Len(fmt_out))
          IN /\ Char(fmt_out, c) = ":"
             /\ IsDigits(mm)
             /\ Len(ss) = 2 /\ IsDigits(ss)
             /\ Val(ss) <= 59
             /\ Val(mm) * 60 + Val(ss) = fmt_in.v \div TicksPerSecond

\* 100 minutes 59.9996 seconds is shown as "100:59"
C15_Witness ==
    /\ fmt_fn = "format_time"
    /\ fmt_in = Num((100 * 60 + 59) * TicksPerSecond + 9996)
    /\ fmt_out = "100:59"

\* C16 as stated: for seconds >= 0 seconds_to_time gives HH:MM:SS.mmm with
\* HH two digits, MM in 00..59 and SS in 00..59 (never 60), and the total
\* read back from the string is within 0.001 s of the input.
C16_ToolArgumentFormat ==
    (fmt_fn = "seconds_to_time" /\ fmt_in.v >= 0) =>
      LET hh == SubSeq(fmt_out, 1, 2)
          mm == SubSeq(fmt_out, 4, 5)
          ss == SubSeq(fmt_out, 7, 8)
          ms == SubSeq(fmt_out, 10, 12)
          back == ((Val(hh) * 60 + Val(mm)) * 60 + Val(ss)) * 1000 + Val(ms)
          ticksPerMs == TicksPerSecond \div 1000
      IN /\ Len(fmt_out) = 12
         /\ Char(fmt_out, 3) = ":" /\ Char(fmt_out, 6) = ":" /\ Char(fmt_out, 9) = "."
         /\ IsDigits(hh) /\ IsDigits(mm) /\ IsDigits(ss) /\ IsDigits(ms)
         /\ Val(mm) <= 59
         /\ Val(ss) <= 59
         /\ back * ticksPerMs - fmt_in.v <= ticksPerMs
         /\ fmt_in.v - back * ticksPerMs <= ticksPerMs

\* --------------------------------------------------- the resolvers alone
\* the pieces locator strings are put together from
LocatorPieces ==
    {"https://drive.google.com/file/d/",
     "https://drive.google.com/open?id=",
     "https://docs.google.com/file/d/",
     "https://drive.example.com/file/d/",
     "https://drive.google.com/drive/folders/",
     "aZ-_9", "/view", " ", "@"}

RECURSIVE LocatorStrings(_)
LocatorStrings(n) ==
    IF n = 0 THEN {""}
    ELSE LocatorStrings(n - 1) \cup
         {a \o b : a \in LocatorStrings(n - 1), b \in LocatorPieces}

LocatorInputs == LocatorStrings(MaxLocatorPieces) \cup {"not a valid @@@ id"}

InitLocator ==
    /\ fs = {}
    /\ TrimIdle
    /\ FmtIdle
    /\ LoadIdle
    /\ UpIdle
    /\ DriveIdle
    /\ loc_fn = "none"
    /\ loc_in \in LocatorInputs
    /\ loc_out = NoId

\* extract_drive_file_id(input_str)
ResolveApp ==
    /\ loc_fn = "none"
    /\ loc_fn' = "extract_drive_file_id"
    /\ loc_out' = extract_drive_file_id(loc_in)
    /\ UNCHANGED <<trimVars, fmtVars, loadVars, upVars, driveVars, loc_in>>

\* manager.extract_file_id_from_url(drive_url)
ResolvePicker ==
    /\ loc_fn = "none"
    /\ loc_fn' = "extract_file_id_from_url"
    /\ loc_out' = extract_file_id_from_url(loc_in)
    /\ UNCHANGED <<trimVars, fmtVars, loadVars, upVars, driveVars, loc_in>>

NextLocator == ResolveApp \/ ResolvePicker

SpecLocator == InitLocator /\ [][NextLocator]_vars

\* the link shapes of each resolver: the text that comes before the ID
LinkShapes ==
    IF loc_fn = "extract_drive_file_id"
    THEN {"https://drive.google.com/file/d/", "https://drive.google.com/open?id=",
          "https://docs.google.com/file/d/"}
    ELSE {"/file/d/", "/folders/", "id=", "/open?id="}

\* the beginnings of a file-view share link each resolver knows
FileViewStarts ==
    IF loc_fn = "extract_drive_file_id"
    THEN {"https://drive.google.com/file/d/", "https://docs.google.com/file/d/"}
    ELSE {"https://drive.google.com/file/d/", "https://docs.google.com/file/d/",
          "https://drive.example.com/file/d/"}

\* id stands in str right after the literal lit
IdAfter(str, lit, id) ==
    \E i \in 1..Len(str) :
       /\ LiteralAt(str, i, lit)
       /\ LiteralAt(str, i + Len(lit), id)

HasLinkShape(str) ==
    \E lit \in LinkShapes, i \in 1..Len(str) :
       /\ LiteralAt(str, i, lit)
       /\ i + Len(lit) <= Len(str)
       /\ SubSeq(str, i + Len(lit), i + Len(lit)) \in IdChars

\* str without the blanks around it
Trimmed(str) ==
    LET inked == {i \in 1..Len(str) : SubSeq(str, i, i) # " "}
    IN IF inked = {} THEN ""
       ELSE SubSeq(str, CHOOSE i \in inked : \A k \in inked : i <= k,
                        CHOOSE j \in inked : \A k \in inked : k <= j)

OnlyIdChars(str) == \A i \in 1..Len(str) : IsIdChar(SubSeq(str, i, i))

\* the rules for the inputs without and with a link shape of the resolver
LocatorRules ==
      /\ ~HasLinkShape(loc_in) =>
            loc_out = IF Trimmed(loc_in) # "" /\ OnlyIdChars(Trimmed(loc_in))
                      THEN FoundId(Trimmed(loc_in))
                      ELSE NoId
      /\ HasLinkShape(loc_in) =>
            /\ loc_out.found
            /\ loc_out.id # "" /\ OnlyIdChars(loc_out.id)
            /\ \E lit \in LinkShapes : IdAfter(loc_in, lit, loc_out.id)

MaxChunks == 2

LoadInputs ==
    {"", "fileA", "https://drive.google.com/file/d/fileB/view", "gone",
     "no such file ?"}

\* the trim variables no load handler touches
trimCtl ==
    <<pc, reqId, video_file, start_time, end_time, start_seconds, end_seconds,
      temp_dir, cmd, proc, result, invocations, workspaces, fs0, tmpdirs0>>

InitLoad ==
    /\ fs \in SUBSET {clipA, LocalPath("fileA")}
    /\ TrimIdle
    /\ FmtIdle
    /\ LocIdle
    /\ LoadIdle
    /\ UpIdle
    /\ DriveIdle

\* ffprobe measures nothing of a file that is not there
ProbeFor(v) ==
    IF Exists(v) THEN ProbeOutcomes ELSE {o \in Unmeasured : o.stdout = ""}

Probed(r, v, o) ==
    [r EXCEPT !.probe = IF Truthy(v) THEN o ELSE NoProbe,
              !.duration = get_video_duration(v, o)]

\* get_video_duration(video_file)
GetDuration(i) ==
    /\ ops[i].pc = "idle"
    /\ \E v \in {None, EmptyPath, clipA} : \E o \in ProbeFor(v) :
         ops' = [ops EXCEPT ![i] =
                   Probed([NoOp EXCEPT !.fn = "get_video_duration",
                                       !.pc = "Done", !.video = v], v, o)]
    /\ UNCHANGED <<trimVars, fmtVars, locVars, upVars, driveVars>>

\* load_local_video(video_file)
LoadLocal(i) ==
    /\ ops[i].pc = "idle"
    /\ \E v \in {None, clipA} : \E o \in ProbeFor(v) :
         ops' = [ops EXCEPT ![i] =
                   Probed([NoOp EXCEPT !.fn = "load_local_video",
                                       !.pc = "Done", !.video = v,
                                       !.out = load_local_video(v, o)], v, o)]
    /\ UNCHANGED <<trimVars, fmtVars, locVars, upVars, driveVars>>

\* load_remote_video(input_path), up to the first next_chunk of the
\* download: load_video_from_path_or_drive and the start of
\* download_from_drive
LoadRemote(i) ==
    /\ ops[i].pc = "idle"
    /\ \E input_path \in LoadInputs, svc \in {"service", "none", "raise"},
          meta \in {"ok", "error"}, opened \in BOOLEAN :
         LET call == [NoOp EXCEPT !.fn = "load_remote_video",
                                  !.input = input_path]
             file_id == extract_drive_file_id(input_path)
             resolved == [call EXCEPT !.file_id = file_id, !.calls.extract = 1]
             authed == [resolved EXCEPT !.calls.auth = 1]
             looked == [authed EXCEPT !.calls.meta = 1]
             asked == [looked EXCEPT !.calls.media = 1]
             dir == mkdtemp(tmpdirs)
             temp_file == JoinName(dir, RemoteName(file_id.id))
             Fail(r, why, ret) ==
                 /\ ops' = [ops EXCEPT ![i] =
                              [r EXCEPT !.pc = "Done", !.failed = why,
                                        !.ret = ret,
                                        !.out = RemoteOutputs(ret, NoProbe)]]
                 /\ UNCHANGED <<fs, tmpdirs>>
         IN  IF input_path = ""
             THEN /\ ops' = [ops EXCEPT ![i] =
                               [call EXCEPT !.pc = "Done",
                                  !.out = Outputs(None,
                                     "Please enter a file path or Drive link",
                                     "No video loaded",
                                     NoneTime, NoneTime, NoneTime, "", "")]]
                  /\ UNCHANGED <<fs, tmpdirs>>
             ELSE IF LocalFirst(input_path)
             THEN /\ \E o \in ProbeFor(LocalPath(input_path)) :
                       LET ret == Ret(LocalPath(input_path), "Local file")
                       IN  ops' = [ops EXCEPT ![i] =
                                     Probed([call EXCEPT !.pc = "Done",
                                               !.ret = ret,
                                               !.out = RemoteOutputs(ret, o)],
                                            ret.path, o)]
                  /\ UNCHANGED <<fs, tmpdirs>>
             ELSE IF ~file_id.found
             THEN Fail(resolved, "unresolved",
                       Ret(None, "Invalid path or Drive link"))
             ELSE IF svc = "none"
             THEN Fail(authed, "no session",
                       Ret(None, "Google Drive service not available"))
             ELSE IF svc = "raise"
             THEN Fail(authed, "no session", OnDriveError)
             ELSE IF meta = "error" \/ file_id.id \notin RemoteIds
             THEN Fail(looked, "metadata", OnDriveError)
             ELSE IF ~opened
             THEN Fail(asked, "download",
                       FetchReturn(OnDownloadError(temp_file)))
             ELSE /\ ops' = [ops EXCEPT ![i] =
                               [asked EXCEPT !.pc = "Downloading",
                                             !.temp_dir = dir,
                                             !.local = temp_file]]
                  /\ fs' = fs \cup {temp_file}
                  /\ tmpdirs' = tmpdirs \cup {dir}
    /\ UNCHANGED <<trimCtl, fmtVars, locVars, upVars, driveVars>>

\* one downloader.next_chunk() of download_from_drive (app.py 108-115) and,
\* once the loop ends, the rest of load_remote_video
NextChunk(i) ==
    /\ ops[i].fn = "load_remote_video"
    /\ ops[i].pc = "Downloading"
    /\ \E r \in {"more", "done", "error"} :
         LET now == [ops[i] EXCEPT !.calls.chunks = @ + 1]
         IN  CASE r = "more" ->
                    /\ now.calls.chunks < MaxChunks
                    /\ ops' = [ops EXCEPT ![i] = now]
               [] r = "done" ->
                    \E o \in ProbeOutcomes :
                      LET ret == FetchReturn(now.local)
                      IN  ops' = [ops EXCEPT ![i] =
                                    Probed([now EXCEPT !.pc = "Done",
                                              !.completed = TRUE,
                                              !.ret = ret,
                                              !.out = RemoteOutputs(ret, o)],
                                           ret.path, o)]
               [] r = "error" ->
                    LET ret == FetchReturn(OnDownloadError(now.local))
                    IN  ops' = [ops EXCEPT ![i] =
                                  [now EXCEPT !.pc = "Done",
                                       !.failed = "download",
                                       !.ret = ret,
                                       !.out = RemoteOutputs(ret, NoProbe)]]
    /\ UNCHANGED <<trimVars, fmtVars, locVars, upVars, driveVars>>

\* download_file_from_url(drive_url) of the picker, up to the first
\* next_chunk (native_drive_picker.py 176-209)
PickerDownload(i) ==
    /\ ops[i].pc = "idle"
    /\ \E drive_url \in LoadInputs, available \in BOOLEAN,
          meta \in {"ok", "error"}, opened \in BOOLEAN :
         LET call == [NoOp EXCEPT !.fn = "download_file_from_url",
                                  !.input = drive_url]
             file_id == extract_file_id_from_url(drive_url)
             resolved == [call EXCEPT !.file_id = file_id, !.calls.extract = 1]
             looked == [resolved EXCEPT !.calls.meta = 1]
             asked == [looked EXCEPT !.calls.media = 1]
             local_path == JoinName(gettempdir, RemoteName(file_id.id))
             Fail(r, why, ret) ==
                 /\ ops' = [ops EXCEPT ![i] =
                              [r EXCEPT !.pc = "Done", !.failed = why,
                                        !.ret = ret]]
                 /\ UNCHANGED fs
         IN  IF ~available
             THEN Fail(call, "no session",
                       Ret(None, "Google Drive not available"))
             ELSE IF ~file_id.found
             THEN Fail(resolved, "unresolved",
                       Ret(None, "Could not extract file ID from URL"))
             ELSE IF meta = "error" \/ file_id.id \notin RemoteIds
             THEN Fail(looked, "metadata", OnPickerError)
             ELSE IF ~opened
             THEN Fail(asked, "download", OnPickerError)
             ELSE /\ ops' = [ops EXCEPT ![i] =
                               [asked EXCEPT !.pc = "Downloading",
                                             !.local = local_path]]
                  /\ fs' = fs \cup {local_path}
    /\ UNCHANGED <<trimCtl, tmpdirs, fmtVars, locVars, upVars, driveVars>>

\* one downloader.next_chunk() of the picker's download and its return
\* (native_drive_picker.py 210-224)
PickerNextChunk(i) ==
    /\ ops[i].fn = "download_file_from_url"
    /\ ops[i].pc = "Downloading"
    /\ \E r \in {"more", "done", "error"} :
         LET now == [ops[i] EXCEPT !.calls.chunks = @ + 1]
         IN  CASE r = "more" ->
                    /\ now.calls.chunks < MaxChunks
                    /\ ops' = [ops EXCEPT ![i] = now]
               [] r = "done" ->
                    ops' = [ops EXCEPT ![i] =
                              [now EXCEPT !.pc = "Done", !.completed = TRUE,
                                   !.ret = Ret(now.local, "Downloaded")]]
               [] r = "error" ->
                    ops' = [ops EXCEPT ![i] =
                              [now EXCEPT !.pc = "Done",
                                   !.failed = "download",
                                   !.ret = OnPickerError]]
    /\ UNCHANGED <<trimVars, fmtVars, locVars, upVars, driveVars>>

NextLoad ==
    \E i \in Operations :
        \/ GetDuration(i)
        \/ LoadLocal(i)
        \/ LoadRemote(i)
        \/ NextChunk(i)
        \/ PickerDownload(i)
        \/ PickerNextChunk(i)

SpecLoad == InitLoad /\ [][NextLoad]_vars


\* ------------------------------------------------------ claims on the probe
Done(op) == op.pc = "Done"

\* the file a finished handler probed, None when it probed none
ProbedFile(op) ==
    IF op.duration.val = NoneTime THEN None
    ELSE IF op.fn = "load_remote_video" THEN op.ret.path
    ELSE op.video

CalledProbe(op) == Done(op) /\ op.duration.val # NoneTime

Measured(op) ==
    /\ Truthy(ProbedFile(op))
    /\ op.probe.started
    /\ op.probe.returncode = 0
    /\ op.probe.stdout = "json"

\* C12: get_video_duration never raises to its caller.  It returns 0 when
\* the path is empty, when ffprobe cannot be started or exits nonzero, and
\* when its output is no JSON, lacks format.duration or holds no number
\* there; it returns the parsed duration when, and only when, ffprobe
\* exited 0 and the field parsed.
C12_ProbeNeverRaises ==
    \A i \in Operations :
        CalledProbe(ops[i]) =>
            /\ ~ops[i].duration.raised
            /\ ( \/ ~Truthy(ops[i].video) /\ ops[i].fn # "load_remote_video"
                 \/ ~ops[i].probe.started
                 \/ ops[i].probe.returncode # 0
                 \/ ops[i].probe.stdout # "json" )
               => ops[i].duration.val = Num(0)
            /\ Measured(ops[i])
               => ops[i].duration.val = Num(ops[i].probe.duration)
            /\ ops[i].duration.val # Num(0) => Measured(ops[i])

C12_Witness ==
    \E i \in Operations :
        /\ CalledProbe(ops[i])
        /\ ops[i].fn = "get_video_duration"
        /\ ops[i].probe.started
        /\ ops[i].probe.returncode = 0
        /\ ops[i].probe.stdout = "no format.duration"
        /\ ops[i].duration = [raised |-> FALSE, val |-> Num(0)]

Loaded(op) ==
    /\ Done(op)
    /\ op.fn \in {"load_local_video", "load_remote_video"}
    /\ Truthy(ProbedFile(op))

FullRange == Num(100 * TicksPerSecond)

\* C13: when get_video_duration returned 0 for a non-empty video file, the
\* load handler still puts the file in the player, reports the video as
\* loaded, and sets the default range: slider maximum 100, start 0, end 100.
C13_ZeroDurationStillLoads ==
    \A i \in Operations :
        Loaded(ops[i]) /\ ops[i].duration.val = Num(0) =>
            /\ ops[i].out.player = ProbedFile(ops[i])
            /\ ops[i].out.status \in {"Local file", "Downloaded from Drive"}
            /\ ops[i].out.info = "Video loaded! (Could not determine duration)"
            /\ ops[i].out.max = FullRange
            /\ ops[i].out.start = Num(0)
            /\ ops[i].out.end = FullRange

C13_Witness ==
    \E i \in Operations :
        /\ Loaded(ops[i])
        /\ ops[i].fn = "load_local_video"
        /\ ops[i].probe.returncode = 1
        /\ ops[i].duration.val = Num(0)
        /\ ops[i].out.player = clipA
        /\ ops[i].out.end = FullRange

\* C14: a file whose measured duration is zero and a file whose duration
\* could not be measured never give the same value of get_video_duration,
\* nor the same outputs of get_video_info.
C14_ZeroDistinctFromUnknown ==
    \A i, j \in Operations :
        /\ CalledProbe(ops[i]) /\ Measured(ops[i]) /\ ops[i].probe.duration = 0
        /\ CalledProbe(ops[j]) /\ Truthy(ProbedFile(ops[j])) /\ ~Measured(ops[j])
        => /\ ops[i].duration.val # ops[j].duration.val
           /\ Loaded(ops[i]) /\ Loaded(ops[j]) =>
                <<ops[i].out.info, ops[i].out.max, ops[i].out.end>> #
                <<ops[j].out.info, ops[j].out.max, ops[j].out.end>>


\* ------------------------------------------------------ claims on the fetch
Wrote(op) == op.local # None

\* C17: for any two download operations, one after the other or
\* interleaved, the files they write lie in different directories, each
\* allocated by its operation alone, so that neither writes the file of the
\* other, even when both files have the same name.
C17_NoSharedWorkspace ==
    \A i, j \in Operations :
        i # j /\ Wrote(ops[i]) /\ Wrote(ops[j]) =>
            /\ ops[i].local.dir = ops[i].temp_dir
            /\ ops[j].local.dir = ops[j].temp_dir
            /\ ops[i].local.dir # ops[j].local.dir
            /\ ops[i].local # ops[j].local

IsRemoteLoad(op) == op.fn = "load_remote_video" /\ op.input # ""

\* C18: in load_video_from_path_or_drive an input that names an existing
\* local path is returned as the resource itself with no identifier
\* extraction, no authentication and no remote call, even when the string
\* has the shape of an ID; anything remote happens only when the local
\* path does not exist.
C18_LocalPathFirst ==
    \A i \in Operations :
        IsRemoteLoad(ops[i]) =>
            /\ Exists(LocalPath(ops[i].input)) =>
                 /\ ops[i].pc = "Done"
                 /\ ops[i].ret.path = LocalPath(ops[i].input)
                 /\ ops[i].out.player = LocalPath(ops[i].input)
                 /\ ops[i].calls = NoCalls
                 /\ ops[i].file_id = NoId
                 /\ ops[i].temp_dir = NoDir
            /\ ops[i].calls # NoCalls => ~Exists(LocalPath(ops[i].input))

C18_Witness ==
    \E i \in Operations :
        /\ IsRemoteLoad(ops[i])
        /\ ops[i].input = "fileA"
        /\ extract_drive_file_id(ops[i].input) = FoundId("fileA")
        /\ Exists(LocalPath("fileA"))
        /\ ops[i].ret.path = LocalPath("fileA")
        /\ ops[i].calls = NoCalls

IsFetch(op) ==
    \/ op.fn = "download_file_from_url"
    \/ IsRemoteLoad(op) /\ ~Exists(LocalPath(op.input))

FetchFailures ==
    {"Invalid path or Drive link", "Google Drive service not available",
     "Drive error", "Failed to download from Drive",
     "Google Drive not available", "Could not extract file ID from URL",
     "Download failed"}

\* C20: a fetch (of an input that is no existing local file) never raises
\* and never retries.  Without a session, with a locator that does not
\* resolve, after a failed metadata lookup and after a download that failed
\* at any chunk it returns no local path and a failure message; it starts
\* the metadata request and the download at most once each; and it returns
\* a local path only after the download loop reported completion.
C20_FetchFailsClosed ==
    \A i \in Operations :
        IsFetch(ops[i]) =>
            /\ ~ops[i].ret.raised
            /\ ops[i].calls.meta <= 1
            /\ ops[i].calls.media <= 1
            /\ ops[i].calls.media = 1 => ops[i].calls.meta = 1
            /\ Done(ops[i]) /\ ops[i].failed # "" =>
                 /\ ops[i].ret.path = None
                 /\ ops[i].ret.msg \in FetchFailures
            /\ ( /\ Done(ops[i])
                 /\ ops[i].calls.extract = 1
                 /\ ops[i].file_id.id \notin RemoteIds )
               => ops[i].ret.path = None
            /\ ops[i].ret.path # None =>
                 /\ Done(ops[i])
                 /\ ops[i].completed
                 /\ ops[i].calls.chunks >= 1
                 /\ ops[i].ret.path = ops[i].local
            /\ ~Done(ops[i]) => ops[i].ret = NoRet

C20_Witness ==
    \E i \in Operations :
        /\ IsFetch(ops[i])
        /\ ops[i].fn = "load_remote_video"
        /\ Done(ops[i])
        /\ ops[i].failed = "download"
        /\ ops[i].calls.chunks = 2
        /\ ops[i].calls.meta = 1
        /\ ops[i].calls.media = 1
        /\ ops[i].ret = Ret(None, "Failed to download from Drive")


\* ================================================================ uploading
\* upload_to_drive (app.py 607-662) and the picker's upload_file_to_folder
\* (native_drive_picker.py 226-273), one call of either.

TrimmedVideo == output_video(output_prefix(<<"tmp", 1>>, clipA))
TrimmedAudio == output_audio(output_prefix(<<"tmp", 1>>, clipA))

\* the destinations typed or passed: none, empty, blank, the ID of a folder
\* (bare, padded, in a folder link) and a text that is neither
DestArgs ==
    {NoneStr, Str(""), Str("   "), Str("aZ-_9"), Str(" aZ-_9 "),
     Str("https://drive.google.com/drive/folders/aZ-_9"),
     Str("not a valid @@@ id")}

\* the folders of the remote storage; a create request that names another
\* parent is refused by it
RemoteFolders == {"aZ-_9"}
Accepts(parents) == parents \subseteq RemoteFolders

\* os.path.basename
Basename(p) == [stem |-> p.stem, ext |-> p.ext]

\* 'parents': [folder_id] if folder_id else []
Parents(folder_id) == IF folder_id # "" THEN {folder_id} ELSE {}

\* app.py 620-625: the folder ID upload_to_drive uses
upload_folder_id(drive_folder_path) ==
    IF extract_drive_file_id(drive_folder_path).found
    THEN extract_drive_file_id(drive_folder_path).id
    ELSE Strip(drive_folder_path)

\* native_drive_picker.py 232-235: the folder ID upload_file_to_folder uses,
\* "" for None
picker_folder_id(folder_url) ==
    IF Given(folder_url) /\ extract_file_id_from_url(folder_url.s).found
    THEN extract_file_id_from_url(folder_url.s).id
    ELSE ""

RemoteFile(p, parents) == [name |-> Basename(p), parents |-> parents]

InitUpload ==
    /\ fs \in SUBSET {TrimmedVideo, TrimmedAudio}
    /\ TrimIdle
    /\ FmtIdle
    /\ LocIdle
    /\ LoadIdle
    /\ DriveIdle
    /\ up = NoUp

UpReturn(r, why, msg) == [r EXCEPT !.pc = "Done", !.failed = why, !.ret = msg]

\* upload_to_drive(video_file, audio_file, drive_folder_path) up to the
\* return of the first files().create; MediaFileUpload raises when the file
\* is not on disk
UploadToDrive ==
    /\ up.pc = "idle"
    /\ \E video \in {None, TrimmedVideo}, audio \in {None, TrimmedAudio},
          dest \in DestArgs, svc \in {"service", "none", "raise"},
          created \in BOOLEAN :
         LET call == [NoUp EXCEPT !.fn = "upload_to_drive", !.video = video,
                                  !.audio = audio, !.dest = dest]
             folder_id == upload_folder_id(dest.s)
             sent == [call EXCEPT !.folder_id = folder_id,
                                  !.parents = Parents(folder_id),
                                  !.attempts = 1]
         IN  up' =
               IF ~Truthy(video) \/ ~Truthy(audio)
               THEN UpReturn(call, "no files", "No files to upload")
               ELSE IF ~Given(dest)
               THEN UpReturn(call, "no destination",
                             "Please enter a Google Drive folder path or ID")
               ELSE IF svc = "none"
               THEN UpReturn(call, "no session",
                             "Google Drive service not available")
               ELSE IF svc = "raise"
               THEN UpReturn(call, "no session", "Upload failed")
               ELSE IF ~Exists(video)
               THEN UpReturn([sent EXCEPT !.attempts = 0], "file missing",
                             "Upload failed")
               ELSE IF ~created \/ ~Accepts(Parents(folder_id))
               THEN UpReturn(sent, "remote", "Upload failed")
               ELSE [sent EXCEPT !.pc = "UploadingAudio",
                                 !.created = <<RemoteFile(video, sent.parents)>>]
    /\ UNCHANGED <<trimVars, fmtVars, locVars, loadVars, driveVars>>

\* the second files().create of upload_to_drive and its return
\* (app.py 646-662)
UploadAudio ==
    /\ up.pc = "UploadingAudio"
    /\ \E created \in BOOLEAN :
         LET sent == [up EXCEPT !.attempts = @ + 1]
         IN  up' =
               IF ~Exists(up.audio)
               THEN UpReturn(up, "file missing", "Upload failed")
               ELSE IF created
               THEN [sent EXCEPT !.pc = "Done", !.ok = TRUE,
                        !.created = Append(@, RemoteFile(up.audio, up.parents)),
                        !.ret = "Uploaded to Google Drive"]
               ELSE UpReturn(sent, "remote", "Upload failed")
    /\ UNCHANGED <<trimVars, fmtVars, locVars, loadVars, driveVars>>

\* upload_file_to_folder(file_path, folder_url)
PickerUpload ==
    /\ up.pc = "idle"
    /\ \E file_path \in {TrimmedVideo, TrimmedAudio}, dest \in DestArgs,
          available \in BOOLEAN, created \in BOOLEAN :
         LET call == [NoUp EXCEPT !.fn = "upload_file_to_folder",
                                  !.video = file_path, !.dest = dest]
             folder_id == picker_folder_id(dest)
             sent == [call EXCEPT !.folder_id = folder_id,
                                  !.parents = Parents(folder_id),
                                  !.attempts = 1]
         IN  up' =
               IF ~available
               THEN UpReturn(call, "no session", "Google Drive not available")
               ELSE IF ~Exists(file_path)
               THEN UpReturn([sent EXCEPT !.attempts = 0], "file missing",
                             "Upload failed")
               ELSE IF ~created \/ ~Accepts(Parents(folder_id))
               THEN UpReturn(sent, "remote", "Upload failed")
               ELSE [sent EXCEPT !.pc = "Done", !.ok = TRUE,
                        !.created = <<RemoteFile(file_path, sent.parents)>>,
                        !.ret = "Uploaded"]
    /\ UNCHANGED <<trimVars, fmtVars, locVars, loadVars, driveVars>>

NextUpload == UploadToDrive \/ UploadAudio \/ PickerUpload

SpecUpload == InitUpload /\ [][NextUpload]_vars

\* ---------------------------------------------------- claims on the upload
Uploaded(u) == u.pc = "Done" /\ u.fn # "none"

\* nothing but the destination stood in the way of the upload
NothingElseWrong(u) ==
    /\ Uploaded(u)
    /\ u.fn = "upload_to_drive" => Truthy(u.video) /\ Truthy(u.audio)
    /\ u.failed \notin {"no files", "no session", "file missing", "remote"}

\* C21: an upload with no destination (None or empty) is not rejected for
\* lack of a destination: it sends its files to the root of the remote
\* storage, with no parent, and reports success.
C21_NoDestinationGoesToRoot ==
    NothingElseWrong(up) /\ ~Given(up.dest) =>
        /\ up.ok
        /\ up.ret \in {"Uploaded to Google Drive", "Uploaded"}
        /\ Len(up.created) >= 1
        /\ \A n \in 1..Len(up.created) : up.created[n].parents = {}

\* the resolver the upload's module resolves locators with
Resolves(u) ==
    IF u.fn = "upload_to_drive"
    THEN extract_drive_file_id(u.dest.s).found
    ELSE extract_file_id_from_url(u.dest.s).found

\* C22: an upload given a non-empty destination that locator resolution
\* rejects fails and creates no remote file; it sends no create request
\* for the root or with the unresolved text as the folder ID.
C22_UnresolvedDestinationFails ==
    Uploaded(up) /\ Given(up.dest) /\ ~Resolves(up) =>
        /\ ~up.ok
        /\ up.created = <<>>
        /\ up.attempts = 0

\* C27: when upload_to_drive returns "Upload failed" no file of the request
\* has been created in the remote storage; when it returns the success
\* message both files have been created, the video before the audio.
C27_UploadAllOrNothing ==
    Uploaded(up) /\ up.fn = "upload_to_drive" =>
        /\ up.ret = "Upload failed" => up.created = <<>>
        /\ up.ret = "Uploaded to Google Drive" =>
             /\ Len(up.created) = 2
             /\ up.created[1].name = Basename(up.video)
             /\ up.created[2].name = Basename(up.audio)


\* ============================================ the trim request, continued
\* The steps of process_video_trim are taken one after the other by the
\* thread that runs the handler, so each of them is taken once it is
\* enabled; that the script exits is the assumption of the claim about it.
SpecLive ==
    /\ Init
    /\ [][Next]_vars
    /\ WF_vars(Validate)
    /\ WF_vars(Prepare)
    /\ WF_vars(Invoke)
    /\ WF_vars(ToolExit)
    /\ WF_vars(Verify)

Pending == pc \in {"Validating", "Preparing", "Invoking", "Running", "Verifying"}

\* the wait for the subprocess ends with its exit and with nothing else
WaitStep ==
    /\ pc = "Running" /\ pc' # "Running" =>
          /\ pc' = "Verifying"
          /\ reqId' = reqId
          /\ result' = NoResult
    /\ pc' = "Done" /\ pc # "Done" /\ invocations' = 1 => pc = "Verifying"

\* C23: process_video_trim waits for the script without timeout or
\* cancellation.  While the script has not exited the request stays where
\* it is and has no result; it leaves the wait only by the exit of the
\* script, and reaches Done after a started script only through that exit;
\* and if the script always exits, every request reaches Done.
C23_WaitsForTheTool ==
    /\ [](pc = "Running" => result = NoResult /\ invocations = 1)
    /\ [][WaitStep]_vars
    /\ (Pending ~> pc = "Done")

C23_Witness ==
    /\ pc = "Done"
    /\ invocations = 1
    /\ proc.returncode = 127
    /\ video_file = clipB
    /\ IsFailure(result)

FailureReasons ==
    {"Please provide video file and both start/end times",
     "Start time must be less than end time",
     "Input video file not found",
     "trim-convert.sh script not found at",
     "Output files not created",
     "trim-convert.sh failed with return code",
     "Unexpected error"}

\* C29: every result of process_video_trim is either a failure, with the
\* three path slots None and a failure reason for message, or a success,
\* with the three slots filled, the same audio path in the player and the
\* download slot, a video path that differs from it, both in the workspace
\* of the request, and both files on disk when the function returns.
C29_ResultWellFormed ==
    pc = "Done" =>
        \/ /\ IsFailure(result)
           /\ result[4].kind \in FailureReasons
        \/ /\ IsSuccess(result)
           /\ result[4].kind = "Successfully trimmed video"
           /\ result[2] = result[3]
           /\ result[1] # result[2]
           /\ result[1].dir = temp_dir
           /\ result[2].dir = temp_dir
           /\ temp_dir \in tmpdirs \ tmpdirs0
           /\ result[1] \in fs
           /\ result[2] \in fs

C29_Witness ==
    /\ pc = "Done"
    /\ video_file = clipB
    /\ IsSuccess(result)
    /\ result[2] = result[3]
    /\ result[1].dir = result[2].dir
    /\ {result[1], result[2]} \subseteq fs \ fs0


\* ================================================== trimming to a folder
\* trim_drive_video (app.py 936-961): it makes the output folder, calls
\* process_video_trim, and moves the two outputs into the folder.

\* the output folders typed into the box: a folder, and the empty text
outdir == <<"out", 1>>
OutputPaths == {outdir, <<"", 0>>}

\* the slider values of the tab
DriveStarts == {NoneTime, BadStr, Num(0), Num(15000)}
DriveEnds == {NoneTime, Num(15000), Num(1000000)}

\* os.path.join(output_path, f"{base_name}_trimmed.<ext>")
new_video(output_path, v) ==
    [dir |-> output_path, stem |-> v.stem \o "_trimmed", ext |-> "mp4"]
new_audio(output_path, v) ==
    [dir |-> output_path, stem |-> v.stem \o "_trimmed", ext |-> "aac"]

\* a failed move reported as a failure of the request
OnMoveError_Fails(r) == Failure(Msg("Move failed"))

\* except Exception (app.py 958-959): the results of process_video_trim
\* with another message
OnMoveError(r) == <<r[1], r[2], r[3], Msg("Trimmed but move failed")>>

InitDrive ==
    /\ FmtIdle
    /\ LocIdle
    /\ LoadIdle
    /\ UpIdle
    /\ fs \in SUBSET (SrcPaths \cup {script_path})
    /\ TrimIdle
    /\ drv = NoDrv
    /\ dirs \in SUBSET {outdir}

\* trim_drive_video(video_file, start_time, end_time, output_path) up to its
\* call of process_video_trim; os.makedirs raises for the empty path and
\* when the folder cannot be made
DriveCall ==
    /\ pc \in {"idle", "Done"}
    /\ drv.pc # "Trimming"
    /\ reqId < MaxRequests
    /\ \E v \in {None} \cup SrcPaths, s \in DriveStarts, e \in DriveEnds,
          out \in OutputPaths, made \in BOOLEAN :
         LET call == [NoDrv EXCEPT !.req = reqId + 1, !.output_path = out,
                                   !.dirs0 = dirs]
         IN  /\ video_file' = v
             /\ start_time' = s
             /\ end_time' = e
             /\ IF ~Truthy(v)
                THEN /\ drv' = [call EXCEPT !.pc = "Done",
                                  !.result = Failure(Msg("Please load a video first"))]
                     /\ pc' = "idle"
                     /\ UNCHANGED dirs
                ELSE IF out # outdir \/ (out \notin dirs /\ ~made)
                THEN /\ drv' = [call EXCEPT !.pc = "Raised"]
                     /\ pc' = "idle"
                     /\ UNCHANGED dirs
                ELSE /\ drv' = [call EXCEPT !.pc = "Trimming"]
                     /\ pc' = "Validating"
                     /\ dirs' = dirs \cup {out}
    /\ reqId' = reqId + 1
    /\ start_seconds' = NoneTime
    /\ end_seconds' = NoneTime
    /\ temp_dir' = NoDir
    /\ cmd' = NoCmd
    /\ proc' = NoProc
    /\ result' = NoResult
    /\ invocations' = 0
    /\ workspaces' = 0
    /\ fs0' = fs
    /\ tmpdirs0' = tmpdirs
    /\ UNCHANGED <<fs, tmpdirs, fmtVars, locVars, loadVars, upVars>>

\* app.py 947-961, after process_video_trim returned: the two shutil.move
\* calls, either of which can raise, and the return
DriveFinish ==
    /\ drv.pc = "Trimming"
    /\ pc = "Done"
    /\ IF result[1] # None
       THEN \E moved \in {{}, {"video"}, {"video", "audio"}} :
              /\ fs' = (fs \ {result[k] : k \in {n \in 1..2 : <<"video", "audio">>[n] \in moved}})
                       \cup (IF "video" \in moved
                             THEN {new_video(drv.output_path, video_file)} ELSE {})
                       \cup (IF "audio" \in moved
                             THEN {new_audio(drv.output_path, video_file)} ELSE {})
              /\ drv' = [drv EXCEPT !.pc = "Done", !.moved = moved,
                           !.result =
                              IF moved = {"video", "audio"}
                              THEN <<new_video(drv.output_path, video_file),
                                     new_audio(drv.output_path, video_file),
                                     new_audio(drv.output_path, video_file),
                                     Msg("Trimmed and saved to")>>
                              ELSE OnMoveError(result)]
       ELSE /\ drv' = [drv EXCEPT !.pc = "Done", !.result = result]
            /\ UNCHANGED fs
    /\ UNCHANGED <<trimCtl, tmpdirs, dirs, fmtVars, locVars, loadVars, upVars>>

NextDrive ==
    DriveCall \/ Validate \/ Prepare \/ Invoke \/ ToolExit \/ Verify \/ DriveFinish

SpecDrive == InitDrive /\ [][NextDrive]_vars


\* ------------------------------------------- claims on trimming to a folder
DriveDone == drv.pc = "Done" /\ drv.req = reqId

\* process_video_trim succeeded and a move then failed
MoveFailed ==
    /\ DriveDone
    /\ pc = "Done"
    /\ IsSuccess(result)
    /\ drv.moved # {"video", "audio"}

\* C24: when process_video_trim succeeded and moving the outputs to the
\* output folder then fails, trim_drive_video still returns a video and an
\* audio path and a success message: the paths and slots of the result of
\* process_video_trim itself.
C24_MoveFailureKeepsSuccess ==
    MoveFailed =>
        /\ IsSuccess(drv.result)
        /\ drv.result[1] = result[1]
        /\ drv.result[2] = result[2]
        /\ drv.result[3] = result[3]
        /\ drv.result[4].kind = "Trimmed but move failed"

C24_Witness ==
    /\ MoveFailed
    /\ drv.moved = {}
    /\ drv.result[1] = output_video(cmd.prefix)
    /\ drv.result[2] = output_audio(cmd.prefix)
    /\ drv.result[1] \in fs

\* C25: every video and audio path trim_drive_video returns names a file
\* that is on disk when it returns, also when the first move succeeded and
\* the second failed.
C25_ReturnedPathsExist ==
    DriveDone =>
        \A k \in 1..3 : drv.result[k] # None => drv.result[k] \in fs

\* the inputs the checks of process_video_trim reject (app.py 157-176); nan
\* and inf are parsed by float() and are not among them
Rejectable ==
    \/ ~Truthy(video_file)
    \/ start_time = NoneTime \/ end_time = NoneTime
    \/ ~Parses(start_time) \/ ~Parses(end_time)
    \/ FloatGE(start_time, end_time)
    \/ video_file \notin fs0

\* the request was rejected by the checks of the inputs and has returned
RejectedByValidation ==
    /\ reqId > 0
    /\ Rejectable
    /\ pc = "Done" \/ DriveDone

\* C26: a trim request rejected by input validation leaves the filesystem
\* as it was when the request was made: no file and no directory is
\* created, moved or deleted, whether the request came to
\* process_video_trim directly or through trim_drive_video with an output
\* folder.
C26_RejectionLeavesDiskAlone ==
    RejectedByValidation =>
        /\ fs = fs0
        /\ tmpdirs = tmpdirs0
        /\ dirs = drv.dirs0


\* ====================================================== a load, then a trim
\* One load through either handler of the unified interface, then the trim
\* button (app.py 1124-1128): process_video_trim is called with what the
\* player and the two sliders hold.

theOp == "op1"

InitSession ==
    /\ fs \in SUBSET {clipA, LocalPath("fileA"), script_path}
    /\ TrimIdle
    /\ FmtIdle
    /\ LocIdle
    /\ LoadIdle
    /\ UpIdle
    /\ DriveIdle

\* what a slider holds after the handler returned x for it: None leaves it
\* without a value or at its minimum
SliderValues(x) == IF x = NoneTime THEN {NoneTime, Num(0)} ELSE {x}

\* trim_btn.click after the load has returned, with untouched sliders
TrimLoaded ==
    /\ UNCHANGED sideVars
    /\ pc = "idle"
    /\ ops[theOp].pc = "Done"
    /\ reqId < MaxRequests
    /\ video_file' = ops[theOp].out.player
    /\ start_time' \in SliderValues(ops[theOp].out.start)
    /\ end_time' \in SliderValues(ops[theOp].out.end)
    /\ reqId' = reqId + 1
    /\ pc' = "Validating"
    /\ start_seconds' = NoneTime
    /\ end_seconds' = NoneTime
    /\ temp_dir' = NoDir
    /\ cmd' = NoCmd
    /\ proc' = NoProc
    /\ result' = NoResult
    /\ invocations' = 0
    /\ workspaces' = 0
    /\ fs0' = fs
    /\ tmpdirs0' = tmpdirs
    /\ UNCHANGED <<fs, tmpdirs>>

NextSession ==
    \/ LoadLocal(theOp)
    \/ LoadRemote(theOp)
    \/ NextChunk(theOp)
    \/ TrimLoaded
    \/ Validate
    \/ Prepare
    \/ Invoke
    \/ ToolExit
    \/ Verify

SpecSession == InitSession /\ [][NextSession]_vars

\* ------------------------------------------------ claims on load then trim
LoadFailed(op) ==
    /\ Done(op)
    /\ op.fn \in {"load_local_video", "load_remote_video"}
    /\ ~Truthy(ProbedFile(op))

\* C28: after a successful load, local or remote, with the duration
\* measured or not, the handler has set start = 0 and end = slider maximum
\* > 0, and a trim issued next with these values passes the checks of the
\* times; after a failed load the player holds no video, and a trim issued
\* next is rejected before a workspace is made or a subprocess started.
C28_LoadThenTrim ==
    /\ Loaded(ops[theOp]) =>
         /\ ops[theOp].out.player = ProbedFile(ops[theOp])
         /\ ops[theOp].out.start = Num(0)
         /\ ops[theOp].out.max.tag = "num"
         /\ ops[theOp].out.max.v > 0
         /\ ops[theOp].out.end = ops[theOp].out.max
         /\ InCall =>
              /\ ~PyFloat(start_time).raised /\ ~PyFloat(end_time).raised
              /\ FloatLT(start_time, end_time)
              /\ pc = "Done" =>
                   result[4] \notin {MsgProvideInputs, MsgStartNotLess,
                                     MsgUnexpected("ValueError")}
              /\ video_file \in fs0 /\ pc = "Done" =>
                   result[4] # MsgInputNotFound(video_file)
    /\ LoadFailed(ops[theOp]) =>
         /\ ops[theOp].out.player = None
         /\ InCall =>
              /\ pc \in {"Validating", "Done"}
              /\ workspaces = 0
              /\ invocations = 0
              /\ tmpdirs = tmpdirs0
              /\ fs = fs0
              /\ pc = "Done" => result = Failure(MsgProvideInputs)

C28_Witness ==
    /\ Loaded(ops[theOp])
    /\ ops[theOp].fn = "load_remote_video"
    /\ ops[theOp].completed
    /\ ops[theOp].duration.val = Num(0)
    /\ pc = "Done"
    /\ start_time = Num(0)
    /\ end_time = FullRange
    /\ IsSuccess(result)

====
